---- MODULE Spec2Model ----
(***************************************************************************)
(* Model of EqualityQueryQuantifiersEngine                                 *)
(* (src/theory/quantifiers/equality_query.cpp): the selection of an        *)
(* internal representative for a term of the equality engine, its cache    *)
(* d_int_rep, the first-chosen table d_rep_score and the counter           *)
(* d_reset_count.                                                          *)
(*                                                                         *)
(* Terms are names; their shape, type and attributes are given by the      *)
(* operators Children, TypeOf, ... below.  The equality engine, the term   *)
(* database, the model and the options are collaborators of the class:     *)
(* they are state the class reads and never writes.                        *)
(***************************************************************************)
EXTENDS Integers, Sequences, FiniteSets, TLC

VARIABLES
    store,          \* the terms that exist in this run (the term store)
    opts,           \* the options the class reads (options::...)
    assertsOff,     \* a failed Assert was passed over: a production build
    fmModel,        \* d_qe->getModel(): absent, or its value table
    ee,             \* the active equality engine: a set of classes
    eeChanges,      \* how many times the equality engine changed
    eeDiseq,        \* the pairs of terms the equality engine holds disequal
    d_int_rep,      \* std::map<TypeNode, std::map<Node, Node>>, keyed <<type, rep>>
    d_rep_score,    \* std::map<Node, int>: first-chosen generation
    d_reset_count,  \* the generation counter
    aborted,        \* the Assert that aborted the process, "none" if none did
    cleared         \* history (SpecHistory only): the entries the last reset removed

vars == <<store, opts, assertsOff, fmModel, ee, eeChanges, eeDiseq, d_int_rep,
          d_rep_score, d_reset_count, aborted, cleared>>

\* Node::null()
Null == "null"

\* ---------------------------------------------------------------- bounds
\* d_reset_count is an unbounded int; reset is modelled up to this value.
MaxResets == 1

\* The equality engine changes at most this many times after the first query.
MaxEEChanges == 1

\* ----------------------------------------------------------------- terms
\* a, b : Int constants;  fa = f(a) : Int;
\* g = g(f(a), f(a), b) : Int, with the subterm f(a) shared by two children;
\* e : an Int instantiation constant;  fe = f(e) : Int;
\* x : a Real constant;  tix = to_int(x) : Int;
\* u : a value of the uninterpreted sort U;  w : a term of sort U;
\* av : a constant array value over U (its type is not a sort).
Terms == {"a", "b", "fa", "g", "e", "fe", "x", "tix", "u", "w", "av"}

Types == {"Int", "Real", "U", "Arr"}

Children(n) ==
    CASE n = "fa" -> <<"a">>
      [] n = "g" -> <<"fa", "fa", "b">>
      [] n = "fe" -> <<"e">>
      [] n = "tix" -> <<"x">>
      [] OTHER -> <<>>

TypeOf(n) ==
    CASE n \in {"a", "b", "fa", "g", "e", "fe", "tix"} -> "Int"
      [] n = "x" -> "Real"
      [] n \in {"u", "w"} -> "U"
      [] OTHER -> "Arr"

\* TypeNode::isSubtypeOf: Int is a subtype of Real.
isSubtypeOf(t1, t2) == t1 = t2 \/ (t1 = "Int" /\ t2 = "Real")

\* TypeNode::isComparableTo
isComparableTo(t1, t2) == isSubtypeOf(t1, t2) \/ isSubtypeOf(t2, t1)

\* TypeNode::isSort: an uninterpreted (user) sort
isSort(t) == t = "U"

\* Node::isConst: a value
isConst(n) == n \in {"u", "av"}

\* TermUtil::containsUninterpretedConstant
containsUninterpretedConstant(n) == n \in {"u", "av"}

\* TermUtil::hasInstConstAttr: the term contains an instantiation constant
hasInstConstAttr(n) == n \in {"e", "fe"}

\* n.hasAttribute(InstLevelAttribute()) and its value
hasInstLevel(n) == n \in {"fa", "fe", "tix", "w"}

InstLevel(n) ==
    CASE n \in {"fa", "fe"} -> 1
      [] n = "tix" -> 0
      [] OTHER -> 2

\* TermDb::isInstClosure, TermDb::hasTermCurrent
isInstClosure(n) == n \notin {"a", "e", "w"}

hasTermCurrent(n) == n # "x"

\* TermUtil::getTermDepth
RECURSIVE getTermDepth(_)
getTermDepth(n) ==
    IF Len(Children(n)) = 0 THEN 0
    ELSE LET depths == {getTermDepth(Children(n)[i]) : i \in 1..Len(Children(n))}
         IN  1 + CHOOSE d \in depths : \A k \in depths : k <= d

\* The bound variables of the quantified formula "q": q[0][index].getType()
BoundVarTypes == <<"Int", "Real">>

InSeq(n, s) == \E i \in 1..Len(s) : s[i] = n

SeqSet(s) == {s[i] : i \in 1..Len(s)}

\* --------------------------------------------------------- configuration
NoModel == [present |-> FALSE, u |-> Null]

\* A model whose value table maps the value u to the term n (Null: to none)
Model(n) == [present |-> TRUE, u |-> n]

Opt(mode, fmf, cbqi, lte, maxLevel, inputOnly) ==
    [quantRepMode |-> mode, finiteModelFind |-> fmf, cbqi |-> cbqi,
     lteRestrictInstClosure |-> lte, instMaxLevel |-> maxLevel,
     instLevelInputOnly |-> inputOnly]

Run(S, model, o) == [store |-> S, model |-> model, opts |-> o]

\* The options of the scoring tiers, finite model finding off: every mode, the
\* instantiation-constant filter, and the closure and level tiers.
ScoringOptions ==
    {Opt("EE", FALSE, FALSE, FALSE, -1, FALSE),
     Opt("FIRST", FALSE, FALSE, FALSE, -1, FALSE),
     Opt("DEPTH", FALSE, FALSE, FALSE, -1, FALSE),
     Opt("FIRST", FALSE, TRUE, FALSE, -1, FALSE),
     Opt("DEPTH", FALSE, FALSE, TRUE, 1, FALSE)}

\* The options of finite model finding, the scoring switches off.
ModelOptions ==
    {Opt(mode, TRUE, FALSE, FALSE, -1, FALSE) : mode \in {"EE", "DEPTH"}}

\* The runs: the terms that exist, the model and the options.
Runs ==
    {Run(S, NoModel, o) : S \in {{"x", "tix"}, {"e", "x"}, {"e", "fe"}},
                          o \in ScoringOptions} \cup
    {Run({"u", "w", "av"}, m, o) : m \in {NoModel, Model("w"), Model(Null)},
                                   o \in ModelOptions}

\* RepSet::getTermForRepresentative: av never has a witnessing term
getTermForRepresentative(n) == IF n = "u" THEN fmModel.u ELSE Null

\* -------------------------------------------------------- equality engine
\* A class is [members, rep]: members in the order EqClassIterator yields them.
eeHasTerm(n) == \E c \in ee : InSeq(n, c.members)

eeClassOf(n) == CHOOSE c \in ee : InSeq(n, c.members)

eeGetRepresentative(n) == eeClassOf(n).rep

eeEqClass(rep) == eeClassOf(rep).members

\* EqualityEngine::areEqual, for two registered terms
eeAreEqual(a, b) == eeClassOf(a) = eeClassOf(b)

\* EqualityEngine::areDisequal, for two registered terms: their classes hold
\* two terms asserted disequal, or two distinct values
eeAreDisequal(a, b) ==
    /\ eeClassOf(a) # eeClassOf(b)
    /\ \E s \in SeqSet(eeClassOf(a).members), t \in SeqSet(eeClassOf(b).members) :
         {s, t} \in eeDiseq \/ (isConst(s) /\ isConst(t))

\* -------------------------------------------------------------- the class
\* lines 50-52
hasTerm(a) == eeHasTerm(a)

\* lines 54-61
getRepresentative(a) == IF eeHasTerm(a) THEN eeGetRepresentative(a) ELSE a

\* lines 63-74 without the test of line 64
areEqualNoIdentity(a, b) ==
    IF eeHasTerm(a) /\ eeHasTerm(b) THEN eeAreEqual(a, b) ELSE FALSE

\* lines 63-74
areEqual(a, b) ==
    IF a = b THEN TRUE
    ELSE IF eeHasTerm(a) /\ eeHasTerm(b) THEN eeAreEqual(a, b)
    ELSE FALSE

\* lines 76-87 returning false at line 84
areDisequalUnregisteredFalse(a, b) ==
    IF a = b THEN FALSE
    ELSE IF eeHasTerm(a) /\ eeHasTerm(b) THEN eeAreDisequal(a, b)
    ELSE FALSE

\* lines 76-87
areDisequal(a, b) ==
    IF a = b THEN FALSE
    ELSE IF eeHasTerm(a) /\ eeHasTerm(b) THEN eeAreDisequal(a, b)
    ELSE isConst(a) /\ isConst(b)

\* lines 186-200 without the else branch of lines 195-197
getEquivalenceClassRegistered(a) ==
    IF eeHasTerm(a) THEN eeEqClass(eeGetRepresentative(a)) ELSE <<>>

\* lines 186-200 with the iterator advanced before the first push_back
getEquivalenceClassSkipFirst(a) ==
    IF eeHasTerm(a) THEN Tail(eeEqClass(eeGetRepresentative(a))) ELSE <<a>>

\* lines 186-200: the members in the engine's order
getEquivalenceClass(a) ==
    IF eeHasTerm(a) THEN eeEqClass(eeGetRepresentative(a)) ELSE <<a>>

\* lines 208-223: returns [res, cache, visits], cache the memo table after the
\* call and visits the nodes whose children the call went through, in order
RECURSIVE getInstance(_, _, _)
RECURSIVE getInstanceChildren(_, _, _, _)
\* getInstance with the membership test of line 218 made before the descent of
\* lines 212-217
getInstanceMembershipFirst(n, eqc, cache) ==
    IF n \in DOMAIN cache THEN [res |-> cache[n], cache |-> cache, visits |-> <<>>]
    ELSE IF InSeq(n, eqc)
      THEN [res |-> n, cache |-> (n :> n) @@ cache, visits |-> <<n>>]
    ELSE LET kids == getInstanceChildren(n, 1, eqc, cache)
         IN  [res |-> kids.res, cache |-> (n :> kids.res) @@ kids.cache,
              visits |-> <<n>> \o kids.visits]

\* getInstance without the descent into n's children (lines 212-217 left out)
getInstanceNoDescent(n, eqc, cache) ==
    [res |-> IF InSeq(n, eqc) THEN n ELSE Null, cache |-> cache, visits |-> <<>>]

\* getInstance without the memo lookup of lines 209-211
getInstanceNoMemo(n, eqc, cache) ==
    LET kids == getInstanceChildren(n, 1, eqc, cache)
    IN  IF kids.res # Null
          THEN [res |-> kids.res, cache |-> (n :> kids.res) @@ kids.cache,
                visits |-> <<n>> \o kids.visits]
        ELSE IF InSeq(n, eqc)
          THEN [res |-> n, cache |-> (n :> n) @@ kids.cache,
                visits |-> <<n>> \o kids.visits]
        ELSE [res |-> Null, cache |-> (n :> Null) @@ kids.cache,
              visits |-> <<n>> \o kids.visits]

\* getInstance with the loop of lines 212-217 testing the children for
\* membership instead of calling getInstance on them
getInstanceShallow(n, eqc, cache) ==
    LET with == {i \in 1..Len(Children(n)) : InSeq(Children(n)[i], eqc)}
    IN  IF with # {}
          THEN [res |-> Children(n)[CHOOSE i \in with : \A j \in with : i <= j],
                cache |-> cache, visits |-> <<n>>]
        ELSE [res |-> IF InSeq(n, eqc) THEN n ELSE Null, cache |-> cache,
              visits |-> <<n>>]

\* getInstance without the membership test of line 218: a node without a
\* member below it is returned itself
getInstanceNoMembership(n, eqc, cache) ==
    IF n \in DOMAIN cache THEN [res |-> cache[n], cache |-> cache, visits |-> <<>>]
    ELSE LET kids == getInstanceChildren(n, 1, eqc, cache)
         IN  IF kids.res # Null
               THEN [res |-> kids.res, cache |-> (n :> kids.res) @@ kids.cache,
                     visits |-> <<n>> \o kids.visits]
             ELSE [res |-> n, cache |-> (n :> n) @@ kids.cache,
                   visits |-> <<n>> \o kids.visits]

\* getInstance with line 215 entering the node itself in the memo table
\* instead of the member found below it
getInstanceMemoNode(n, eqc, cache) ==
    IF n \in DOMAIN cache THEN [res |-> cache[n], cache |-> cache, visits |-> <<>>]
    ELSE LET kids == getInstanceChildren(n, 1, eqc, cache)
         IN  IF kids.res # Null
               THEN [res |-> kids.res, cache |-> (n :> n) @@ kids.cache,
                     visits |-> <<n>> \o kids.visits]
             ELSE IF InSeq(n, eqc)
               THEN [res |-> n, cache |-> (n :> n) @@ kids.cache,
                     visits |-> <<n>> \o kids.visits]
             ELSE [res |-> Null, cache |-> (n :> Null) @@ kids.cache,
                   visits |-> <<n>> \o kids.visits]

getInstance(n, eqc, cache) ==
    IF n \in DOMAIN cache THEN [res |-> cache[n], cache |-> cache, visits |-> <<>>]
    ELSE LET kids == getInstanceChildren(n, 1, eqc, cache)
         IN  IF kids.res # Null
               THEN [res |-> kids.res, cache |-> (n :> kids.res) @@ kids.cache,
                     visits |-> <<n>> \o kids.visits]
             ELSE IF InSeq(n, eqc)
               THEN [res |-> n, cache |-> (n :> n) @@ kids.cache,
                     visits |-> <<n>> \o kids.visits]
             ELSE [res |-> Null, cache |-> (n :> Null) @@ kids.cache,
                   visits |-> <<n>> \o kids.visits]

\* lines 212-217 going through the children from the last to the first
getInstanceChildrenReversed(n, i, eqc, cache) ==
    IF i > Len(Children(n)) THEN [res |-> Null, cache |-> cache, visits |-> <<>>]
    ELSE LET nn == getInstance(Children(n)[Len(Children(n)) + 1 - i], eqc, cache)
             rest == getInstanceChildren(n, i + 1, eqc, nn.cache)
         IN  IF nn.res # Null THEN nn
             ELSE [rest EXCEPT !.visits = nn.visits \o rest.visits]

\* lines 212-217: the loop over n's children, from child i on
getInstanceChildren(n, i, eqc, cache) ==
    IF i > Len(Children(n)) THEN [res |-> Null, cache |-> cache, visits |-> <<>>]
    ELSE LET nn == getInstance(Children(n)[i], eqc, cache)
             rest == getInstanceChildren(n, i + 1, eqc, nn.cache)
         IN  IF nn.res # Null THEN nn
             ELSE [rest EXCEPT !.visits = nn.visits \o rest.visits]

\* The object a member function runs on: its three data members.
This == [d_int_rep |-> d_int_rep, d_rep_score |-> d_rep_score,
         d_reset_count |-> d_reset_count]

\* lines 226-256 with the closure tier of line 235 tested before the type
\* filter of line 233
getRepScoreClosureFirst(this, n, q, index, v_tn) ==
    IF opts.cbqi /\ hasInstConstAttr(n) THEN -2
    ELSE IF opts.lteRestrictInstClosure /\ (~isInstClosure(n) \/ ~hasTermCurrent(n))
      THEN -1
    ELSE IF ~isSubtypeOf(TypeOf(n), v_tn) THEN -2
    ELSE IF opts.instMaxLevel # -1
      THEN IF hasInstLevel(n) THEN InstLevel(n)
           ELSE IF opts.instLevelInputOnly THEN -1 ELSE 0
    ELSE IF opts.quantRepMode = "FIRST"
      THEN IF n \notin DOMAIN this.d_rep_score THEN -1 ELSE this.d_rep_score[n]
    ELSE getTermDepth(n)

\* lines 226-256 with a candidate without a record scored 0 at line 248
getRepScoreUnchosenZero(this, n, q, index, v_tn) ==
    IF opts.cbqi /\ hasInstConstAttr(n) THEN -2
    ELSE IF ~isSubtypeOf(TypeOf(n), v_tn) THEN -2
    ELSE IF opts.lteRestrictInstClosure /\ (~isInstClosure(n) \/ ~hasTermCurrent(n))
      THEN -1
    ELSE IF opts.instMaxLevel # -1
      THEN IF hasInstLevel(n) THEN InstLevel(n)
           ELSE IF opts.instLevelInputOnly THEN -1 ELSE 0
    ELSE IF opts.quantRepMode = "FIRST"
      THEN IF n \notin DOMAIN this.d_rep_score THEN 0 ELSE this.d_rep_score[n]
    ELSE getTermDepth(n)

\* lines 226-256 with the two values of line 242 exchanged
getRepScoreInputOnlyZero(this, n, q, index, v_tn) ==
    IF opts.cbqi /\ hasInstConstAttr(n) THEN -2
    ELSE IF ~isSubtypeOf(TypeOf(n), v_tn) THEN -2
    ELSE IF opts.lteRestrictInstClosure /\ (~isInstClosure(n) \/ ~hasTermCurrent(n))
      THEN -1
    ELSE IF opts.instMaxLevel # -1
      THEN IF hasInstLevel(n) THEN InstLevel(n)
           ELSE IF opts.instLevelInputOnly THEN 0 ELSE -1
    ELSE IF opts.quantRepMode = "FIRST"
      THEN IF n \notin DOMAIN this.d_rep_score THEN -1 ELSE this.d_rep_score[n]
    ELSE getTermDepth(n)

\* lines 226-256
getRepScore(this, n, q, index, v_tn) ==
    IF opts.cbqi /\ hasInstConstAttr(n) THEN -2
    ELSE IF ~isSubtypeOf(TypeOf(n), v_tn) THEN -2
    ELSE IF opts.lteRestrictInstClosure /\ (~isInstClosure(n) \/ ~hasTermCurrent(n))
      THEN -1
    ELSE IF opts.instMaxLevel # -1
      THEN IF hasInstLevel(n) THEN InstLevel(n)
           ELSE IF opts.instLevelInputOnly THEN -1 ELSE 0
    ELSE IF opts.quantRepMode = "FIRST"
      THEN IF n \notin DOMAIN this.d_rep_score THEN -1 ELSE this.d_rep_score[n]
    ELSE getTermDepth(n)

\* line 153 without "score>=0": an undesired member can replace a winner
takesOverUndesired(score, r_best, r_best_score) ==
    score # -2 /\ (r_best = Null \/ r_best_score < 0 \/ score < r_best_score)

\* line 153 with "score<=r_best_score": among equal scores the last one wins
takesOverLast(score, r_best, r_best_score) ==
    score # -2 /\ (r_best = Null \/ (score >= 0 /\ (r_best_score < 0 \/ score <= r_best_score)))

\* line 153 without the test of line 152: a rejected member can be taken
takesOverRejected(score, r_best, r_best_score) ==
    r_best = Null \/ (score >= 0 /\ (r_best_score < 0 \/ score < r_best_score))

\* line 153: whether eqc[i], scored score, replaces the current r_best
takesOver(score, r_best, r_best_score) ==
    score # -2 /\ (r_best = Null \/ (score >= 0 /\ (r_best_score < 0 \/ score < r_best_score)))

\* lines 149-158: the selection loop from member i on
RECURSIVE selectBest(_, _, _, _, _, _, _, _)
selectBest(this, eqc, i, r_best, r_best_score, q, index, v_tn) ==
    IF i > Len(eqc) THEN [r_best |-> r_best, r_best_score |-> r_best_score]
    ELSE LET score == getRepScore(this, eqc[i], q, index, v_tn)
         IN  IF takesOver(score, r_best, r_best_score)
               THEN selectBest(this, eqc, i + 1, eqc[i], score, q, index, v_tn)
               ELSE selectBest(this, eqc, i + 1, r_best, r_best_score, q, index, v_tn)

\* lines 94-113 without the mapping of lines 95-113
rawRepresentativeUnmapped(a) == [r |-> getRepresentative(a), failed |-> FALSE]

\* lines 94-113 without line 103: the witness is not resolved in the engine
rawRepresentativeWitnessItself(a) ==
    LET r == getRepresentative(a)
    IN  IF opts.finiteModelFind /\ isConst(r) /\ containsUninterpretedConstant(r)
           /\ fmModel.present
          THEN LET tr == getTermForRepresentative(r)
               IN  IF tr # Null THEN [r |-> tr, failed |-> FALSE]
                   ELSE [r |-> r, failed |-> isSort(TypeOf(r))]
          ELSE [r |-> r, failed |-> FALSE]

\* lines 94-113 without the test of line 106: every missing witness is fatal
rawRepresentativeAlwaysFatal(a) ==
    LET r == getRepresentative(a)
    IN  IF opts.finiteModelFind /\ isConst(r) /\ containsUninterpretedConstant(r)
           /\ fmModel.present
          THEN LET tr == getTermForRepresentative(r)
               IN  IF tr # Null THEN [r |-> getRepresentative(tr), failed |-> FALSE]
                   ELSE [r |-> r, failed |-> TRUE]
          ELSE [r |-> r, failed |-> FALSE]

\* lines 94-113: the raw representative after the finite-model mapping;
\* failed: the Assert(false) of line 108 was reached
rawRepresentative(a) ==
    LET r == getRepresentative(a)
    IN  IF opts.finiteModelFind /\ isConst(r) /\ containsUninterpretedConstant(r)
           /\ fmModel.present
          THEN LET tr == getTermForRepresentative(r)
               IN  IF tr # Null THEN [r |-> getRepresentative(tr), failed |-> FALSE]
                   ELSE [r |-> r, failed |-> isSort(TypeOf(r))]
          ELSE [r |-> r, failed |-> FALSE]

\* line 120
targetType(a, q, index) == IF q = Null THEN TypeOf(a) ELSE BoundVarTypes[index + 1]

\* lines 122-123 never finding the entry: every call recomputes
cacheHitNever(this, v_tn, r) == FALSE

\* lines 122-123
cacheHit(this, v_tn, r) == <<v_tn, r>> \in DOMAIN this.d_int_rep

\* line 125 returning the key's representative instead of the stored term
cachedChoiceRaw(this, v_tn, r) == r

\* line 125
cachedChoice(this, v_tn, r) == this.d_int_rep[<<v_tn, r>>]

\* lines 159-162 left out: a null r_best stays null
fallBackNone(r_best, r) == r_best

\* lines 159-162
fallBack(r_best, r) == IF r_best = Null THEN r ELSE r_best

\* lines 167-169 without the test of line 167: every choice is recorded anew
recordLastChosen(this, r_best) == (r_best :> this.d_reset_count) @@ this.d_rep_score

\* lines 167-169 recording 0 instead of the counter
recordGenerationZero(this, r_best) ==
    IF r_best \notin DOMAIN this.d_rep_score
      THEN (r_best :> 0) @@ this.d_rep_score
      ELSE this.d_rep_score

\* lines 167-169 recording the generation after the current one
recordNextGeneration(this, r_best) ==
    IF r_best \notin DOMAIN this.d_rep_score
      THEN (r_best :> this.d_reset_count + 1) @@ this.d_rep_score
      ELSE this.d_rep_score

\* lines 167-169 left out
recordNone(this, r_best) == this.d_rep_score

\* lines 167-169
recordFirstChosen(this, r_best) ==
    IF r_best \notin DOMAIN this.d_rep_score
      THEN (r_best :> this.d_reset_count) @@ this.d_rep_score
      ELSE this.d_rep_score

\* line 172 storing the raw representative instead of the choice
storeRaw(this, v_tn, r, r_best) == (<<v_tn, r>> :> r) @@ this.d_int_rep

\* line 172 with a cache keyed by the representative alone: the choice is
\* stored under every type
storeChoiceAllTypes(this, v_tn, r, r_best) ==
    [k \in DOMAIN this.d_int_rep \cup {<<t, r>> : t \in Types} |->
       IF k[2] = r THEN r_best ELSE this.d_int_rep[k]]

\* line 172
storeChoice(this, v_tn, r, r_best) == (<<v_tn, r>> :> r_best) @@ this.d_int_rep

\* lines 89-180 with every Assert passed over (a production build): what the
\* call returns (res) and the object it leaves (this).  path: "ee" (line 116),
\* "hit" (line 125) or "miss" (line 177); winner: r_best after the loop of
\* lines 150-158; failed: the Asserts whose condition was false.
getInternalRepresentative(this, a, q, index) ==
    LET raw == rawRepresentative(a)
        r == raw.r
        v_tn == targetType(a, q, index)
        eqc == getEquivalenceClass(r)
        best == selectBest(this, eqc, 1, Null, -1, q, index, v_tn)
        r_best == getInstance(fallBack(best.r_best, r), eqc, <<>>).res
        f108 == IF raw.failed THEN {"line108"} ELSE {}
        f171 == IF isSubtypeOf(TypeOf(r_best), v_tn) THEN {} ELSE {"line171"}
        call == [path |-> "ee", r |-> r, v_tn |-> v_tn, eqc |-> <<>>, winner |-> Null,
                 res |-> r, failed |-> f108, this |-> this]
    IN  IF opts.quantRepMode = "EE" THEN call
        ELSE IF cacheHit(this, v_tn, r)
          THEN [call EXCEPT !.path = "hit", !.res = cachedChoice(this, v_tn, r)]
        ELSE [call EXCEPT !.path = "miss", !.eqc = eqc, !.winner = best.r_best,
                          !.res = r_best, !.failed = f108 \cup f171,
                          !.this = [this EXCEPT
                                      !.d_rep_score = recordFirstChosen(this, r_best),
                                      !.d_int_rep = storeChoice(this, v_tn, r, r_best)]]

\* lines 44-48 clearing d_rep_score as well
resetAll(this) ==
    [this |-> [d_int_rep |-> <<>>, d_rep_score |-> <<>>,
               d_reset_count |-> this.d_reset_count + 1],
     res |-> TRUE]

\* lines 44-48 without line 45: the cache is kept
resetCounterOnly(this) ==
    [this |-> [this EXCEPT !.d_reset_count = this.d_reset_count + 1], res |-> TRUE]

\* lines 44-48 clearing the entries of type Int only
resetIntOnly(this) ==
    [this |-> [this EXCEPT
                 !.d_int_rep = [k \in {j \in DOMAIN this.d_int_rep : j[1] # "Int"} |->
                                  this.d_int_rep[k]],
                 !.d_reset_count = this.d_reset_count + 1],
     res |-> TRUE]

\* lines 44-48 with the counter decremented instead of incremented
resetDown(this) ==
    [this |-> [this EXCEPT !.d_int_rep = <<>>, !.d_reset_count = this.d_reset_count - 1],
     res |-> TRUE]

\* lines 44-48 clearing d_rep_score as well when the cache is empty already
resetDeep(this) ==
    [this |-> [this EXCEPT !.d_int_rep = <<>>,
                           !.d_rep_score = IF this.d_int_rep = <<>> THEN <<>> ELSE @,
                           !.d_reset_count = this.d_reset_count + 1],
     res |-> TRUE]

\* lines 44-48: the object reset leaves and what it returns
reset(this) ==
    [this |-> [this EXCEPT !.d_int_rep = <<>>, !.d_reset_count = this.d_reset_count + 1],
     res |-> TRUE]

\* ---------------------------------------------------------------- actions
\* The calls the instantiation engine makes: the term exists, and its type is
\* comparable to the bound variable's.
Callable(a, q, index) ==
    /\ a \in store
    /\ q \in {Null, "q"}
    /\ index \in (IF q = Null THEN {0} ELSE 0..(Len(BoundVarTypes) - 1))
    /\ isComparableTo(TypeOf(a), targetType(a, q, index))

Calls == {c \in store \X {Null, "q"} \X (0..(Len(BoundVarTypes) - 1)) :
            Callable(c[1], c[2], c[3])}

\* A call that returns.  With a false Assert passed over, the build is a
\* production build from then on.
Return(a, q, index) ==
    LET out == getInternalRepresentative(This, a, q, index)
    IN  /\ aborted = "none"
        /\ d_int_rep' = out.this.d_int_rep
        /\ d_rep_score' = out.this.d_rep_score
        /\ assertsOff' = (assertsOff \/ out.failed # {})
        /\ UNCHANGED <<store, opts, fmModel, ee, eeChanges, eeDiseq, d_reset_count, aborted,
                       cleared>>

\* A call that a false Assert aborts (a debug build): line 108 comes before any
\* write, line 171 after the write of line 168 and before that of line 172.
Abort(a, q, index) ==
    LET out == getInternalRepresentative(This, a, q, index)
    IN  /\ aborted = "none"
        /\ out.failed # {}
        /\ ~assertsOff
        /\ aborted' = IF "line108" \in out.failed THEN "line108" ELSE "line171"
        /\ d_rep_score' = IF "line108" \in out.failed THEN d_rep_score
                          ELSE out.this.d_rep_score
        /\ UNCHANGED <<store, opts, fmModel, ee, eeChanges, eeDiseq, d_reset_count, d_int_rep,
                       assertsOff, cleared>>

GetInternalRepresentative ==
    \E c \in Calls :
      \/ Return(c[1], c[2], c[3])
      \/ Abort(c[1], c[2], c[3])

\* A call of reset
ResetCall ==
    /\ aborted = "none"
    /\ d_reset_count < MaxResets
    /\ d_int_rep' = reset(This).this.d_int_rep
    /\ d_rep_score' = reset(This).this.d_rep_score
    /\ d_reset_count' = reset(This).this.d_reset_count
    /\ UNCHANGED <<store, opts, assertsOff, fmModel, ee, eeChanges, eeDiseq, aborted>>

\* reset, not recording what it removes
Reset == ResetCall /\ UNCHANGED cleared

\* reset, recording what it removes
ResetRecorded == ResetCall /\ cleared' = d_int_rep

\* The equality engine registers a term, in a class of its own.
EEAddTerm ==
    /\ aborted = "none"
    /\ eeChanges < MaxEEChanges
    /\ \E n \in store :
         /\ ~eeHasTerm(n)
         /\ ee' = ee \cup {[members |-> <<n>>, rep |-> n]}
    /\ eeChanges' = eeChanges + 1
    /\ UNCHANGED <<store, opts, assertsOff, fmModel, eeDiseq, d_int_rep, d_rep_score,
                   d_reset_count, aborted, cleared>>

\* The equality engine merges two classes of comparable type; the merged class
\* keeps one of the two representatives.
EEMerge ==
    /\ aborted = "none"
    /\ eeChanges < MaxEEChanges
    /\ \E c1 \in ee, c2 \in ee :
         /\ c1 # c2
         /\ isComparableTo(TypeOf(c1.rep), TypeOf(c2.rep))
         /\ ~eeAreDisequal(c1.rep, c2.rep)
         /\ \E rep \in {c1.rep, c2.rep} :
              ee' = (ee \ {c1, c2}) \cup {[members |-> c1.members \o c2.members,
                                            rep |-> rep]}
    /\ eeChanges' = eeChanges + 1
    /\ UNCHANGED <<store, opts, assertsOff, fmModel, eeDiseq, d_int_rep, d_rep_score,
                   d_reset_count, aborted, cleared>>

\* A context pop as the engine sees it: it forgets a registered term or splits
\* a class in two.
PopChange ==
    /\ aborted = "none"
    /\ eeChanges < MaxEEChanges
    /\ \/ \E c \in ee :
            /\ Len(c.members) = 1
            /\ ee' = ee \ {c}
       \/ \E c \in ee :
            \E k \in 1..(Len(c.members) - 1) :
              LET m1 == SubSeq(c.members, 1, k)
                  m2 == SubSeq(c.members, k + 1, Len(c.members))
              IN  \E r1 \in SeqSet(m1), r2 \in SeqSet(m2) :
                    /\ c.rep \in {r1, r2}
                    /\ ee' = (ee \ {c}) \cup {[members |-> m1, rep |-> r1],
                                               [members |-> m2, rep |-> r2]}
    /\ eeChanges' = eeChanges + 1
    /\ eeDiseq' = {p \in eeDiseq : \A t \in p : \E c \in ee' : InSeq(t, c.members)}
    /\ UNCHANGED <<store, opts, assertsOff, fmModel, aborted>>

\* The equality engine is told that two terms of different classes are
\* disequal.
EEAssertDisequal ==
    /\ aborted = "none"
    /\ eeChanges < MaxEEChanges
    /\ \E a \in store, b \in store :
         /\ eeHasTerm(a) /\ eeHasTerm(b)
         /\ ~eeAreEqual(a, b)
         /\ isComparableTo(TypeOf(a), TypeOf(b))
         /\ {a, b} \notin eeDiseq
         /\ eeDiseq' = eeDiseq \cup {{a, b}}
    /\ eeChanges' = eeChanges + 1
    /\ UNCHANGED <<store, opts, assertsOff, fmModel, ee, d_int_rep, d_rep_score,
                   d_reset_count, aborted, cleared>>

\* A context pop that nothing tells the class about
EEPop == PopChange /\ UNCHANGED <<d_int_rep, d_rep_score, d_reset_count, cleared>>

\* A context pop whose caller triggers reset before the cache is used again;
\* cleared records the entries cached before the pop.
PopThenReset ==
    /\ PopChange
    /\ d_reset_count < MaxResets
    /\ d_int_rep' = reset(This).this.d_int_rep
    /\ d_rep_score' = reset(This).this.d_rep_score
    /\ d_reset_count' = reset(This).this.d_reset_count
    /\ cleared' = d_int_rep

\* The states the equality engine can be in over the terms S: some of them
\* registered, in classes of comparable type, each class in some order and
\* with one of its members as representative.
Orders(T) == {s \in [1..Cardinality(T) -> T] : \A i, j \in 1..Cardinality(T) : s[i] = s[j] => i = j}

ClassesOf(T) ==
    IF \E n, m \in T : ~isComparableTo(TypeOf(n), TypeOf(m)) THEN {}
    ELSE {[members |-> s, rep |-> r] : s \in Orders(T), r \in T}

RECURSIVE EEStates(_)
EEStates(S) ==
    IF S = {} THEN {{}}
    ELSE LET n == CHOOSE m \in S : TRUE
             R == S \ {n}
         IN  EEStates(R) \cup
             UNION {{{c} \cup P : c \in ClassesOf(M \cup {n}), P \in EEStates(R \ M)} :
                    M \in SUBSET R}

Init ==
    /\ \E run \in Runs :
         /\ store = run.store
         /\ fmModel = run.model
         /\ opts = run.opts
    /\ assertsOff = FALSE
    /\ ee \in EEStates(store)
    /\ eeChanges = 0
    /\ eeDiseq = {}
    /\ d_int_rep = <<>>
    /\ d_rep_score = <<>>
    /\ d_reset_count = 0
    /\ aborted = "none"
    /\ cleared = <<>>

Next ==
    \/ GetInternalRepresentative
    \/ Reset
    \/ EEAddTerm
    \/ EEMerge
    \/ EEPop

Spec == Init /\ [][Next]_vars

\* The runs with the history of reset recorded: no finite model finding, the
\* scoring filters off, the first-use and depth modes.
InitHistory ==
    /\ Init
    /\ store \in {{"x", "tix"}, {"e", "x"}}
    /\ opts \in {Opt(mode, FALSE, FALSE, FALSE, -1, FALSE) : mode \in {"FIRST", "DEPTH"}}

NextHistory ==
    \/ GetInternalRepresentative
    \/ ResetRecorded
    \/ EEAddTerm
    \/ EEMerge
    \/ EEPop

SpecHistory == InitHistory /\ [][NextHistory]_vars

\* The runs in which every context pop triggers reset.
NextProtocol ==
    \/ GetInternalRepresentative
    \/ Reset
    \/ EEAddTerm
    \/ EEMerge
    \/ PopThenReset

SpecProtocol == InitHistory /\ [][NextProtocol]_vars

\* The runs with finite model finding on: a value of a user sort, a term of
\* that sort and an array value, with and without a model and a witness.
InitModel ==
    /\ Init
    /\ store = {"u", "w", "av"}

SpecModel == InitModel /\ [][Next]_vars

\* The runs on the terms e and x in which the cache is used, under every
\* scoring option of the runs.
InitReset ==
    /\ Init
    /\ store = {"e", "x"}
    /\ opts.quantRepMode # "EE"

SpecReset == InitReset /\ [][Next]_vars

\* The runs of the boolean queries: three terms and two values, and an engine
\* that is also told disequalities.
InitQueries ==
    /\ store = {"a", "b", "u", "w", "av"}
    /\ fmModel = NoModel
    /\ opts = Opt("DEPTH", FALSE, FALSE, FALSE, -1, FALSE)
    /\ assertsOff = FALSE
    /\ ee \in EEStates(store)
    /\ eeChanges = 0
    /\ eeDiseq = {}
    /\ d_int_rep = <<>>
    /\ d_rep_score = <<>>
    /\ d_reset_count = 0
    /\ aborted = "none"
    /\ cleared = <<>>

\* areEqual and areDisequal read the engine and write nothing: the steps are
\* the engine's.
NextQueries ==
    \/ EEAddTerm
    \/ EEMerge
    \/ EEPop
    \/ EEAssertDisequal

SpecQueries == InitQueries /\ [][NextQueries]_vars

\* The inputs of the selection: one class of three terms in every order the
\* engine can enumerate it and with every representative, under every
\* combination of the scoring options.
SelectionOptions ==
    {Opt(mode, FALSE, cbqi, lte, maxLevel, inputOnly) :
       mode \in {"FIRST", "DEPTH"}, cbqi \in BOOLEAN, lte \in BOOLEAN,
       maxLevel \in {-1, 1}, inputOnly \in BOOLEAN}

InitSelection ==
    /\ store \in {{"fa", "a", "b"}, {"fe", "e", "x"}}
    /\ fmModel = NoModel
    /\ opts \in SelectionOptions
    /\ assertsOff = FALSE
    /\ ee \in {{c} : c \in ClassesOf(store)}
    /\ eeChanges = 0
    /\ eeDiseq = {}
    /\ d_int_rep = <<>>
    /\ d_rep_score = <<>>
    /\ d_reset_count = 0
    /\ aborted = "none"
    /\ cleared = <<>>

NextSelection == GetInternalRepresentative

SpecSelection == InitSelection /\ [][NextSelection]_vars

\* The inputs of the instance guard: the term g and its subterms, with any of
\* them in one class, in every order and with every representative.
InitGuard ==
    /\ store = {"g", "fa", "a", "b"}
    /\ fmModel = NoModel
    /\ opts \in {Opt(mode, FALSE, FALSE, FALSE, -1, FALSE) : mode \in {"FIRST", "DEPTH"}}
    /\ assertsOff = FALSE
    /\ ee \in {{}} \cup {{c} : c \in UNION {ClassesOf(M) : M \in SUBSET store \ {{}}}}
    /\ eeChanges = 0
    /\ eeDiseq = {}
    /\ d_int_rep = <<>>
    /\ d_rep_score = <<>>
    /\ d_reset_count = 0
    /\ aborted = "none"
    /\ cleared = <<>>

SpecGuard == InitGuard /\ [][NextSelection]_vars

\* ------------------------------------------------------------ properties
\* The outcome of the call c = <<a, q, index>> made in the current state
Out(c) == getInternalRepresentative(This, c[1], c[2], c[3])

\* The outcome of the call c made on the object a previous call or reset left
Then(o, c) == getInternalRepresentative(o.this, c[1], c[2], c[3])

\* The subterms of n, n among them
RECURSIVE Subterms(_)
Subterms(n) == {n} \cup UNION {Subterms(Children(n)[i]) : i \in 1..Len(Children(n))}

\* The members of eqc nested inside n
NestedMembers(n, eqc) == (Subterms(n) \ {n}) \cap SeqSet(eqc)

\* Every member of the class of the call's raw representative scores -2.
AllRejected(c, o) ==
    \A n \in SeqSet(getEquivalenceClass(o.r)) : getRepScore(This, n, c[2], c[3], o.v_tn) = -2

\* C1: a call repeated right after itself, no reset in between, returns the
\* same term.
C1_ConsecutiveCallsAgree ==
    \A c \in Calls : \A o \in {Out(c)} : Then(o, c).res = o.res

\* a query was answered from a computed choice that is not the raw representative
C1_Witness ==
    \E c \in Calls : Out(c).path = "hit" /\ Out(c).res # Out(c).r /\ Then(Out(c), c).path = "hit"

\* C2: the Assert of line 171 never fails, and every stored choice has a type
\* that is a subtype of the type it is stored under.
C2_TypeSoundness ==
    /\ aborted # "line171"
    /\ \A k \in DOMAIN d_int_rep : isSubtypeOf(TypeOf(d_int_rep[k]), k[1])

\* C3: with the engine unchanged and no reset, two calls whose query terms
\* have the same raw representative and the same target type get the same term.
C3_OnePerClassAndType ==
    \A c1 \in Calls : \A o1 \in {Out(c1)} :
          \A c2 \in Calls :
            (/\ targetType(c2[1], c2[2], c2[3]) = o1.v_tn
             /\ rawRepresentative(c2[1]).r = o1.r) => Then(o1, c2).res = o1.res

\* two distinct query terms are answered from one computed entry
C3_Witness ==
    \E c1, c2 \in Calls :
      /\ c1[1] # c2[1]
      /\ Out(c1).path = "hit" /\ Out(c2).path = "hit"
      /\ Out(c1).r = Out(c2).r /\ Out(c1).v_tn = Out(c2).v_tn
      /\ Out(c1).res # Out(c1).r

\* C4 as stated: when every member of the class scores -2, the call returns
\* the raw representative r.
C4_RejectedReturnsRaw ==
    \A c \in Calls : \A o \in {Out(c)} :
          (o.path = "miss" /\ AllRejected(c, o)) => o.res = o.r

\* C4 amended: when every member of the class scores -2 there is no winner, and
\* the call returns r unless a member of the class is nested inside r, and
\* then it returns that nested member.
C4_RejectedReturnsGuardedRaw ==
    \A c \in Calls : \A o \in {Out(c)} :
          (o.path = "miss" /\ AllRejected(c, o)) =>
            /\ o.winner = Null
            /\ NestedMembers(o.r, o.eqc) = {} => o.res = o.r
            /\ NestedMembers(o.r, o.eqc) # {} => o.res \in NestedMembers(o.r, o.eqc)

\* a class whose members are all rejected was queried and r was stored for it
C4_Witness ==
    \E c \in Calls :
      /\ Out(c).path = "hit" /\ eeChanges = 0
      /\ AllRejected(c, Out(c))
      /\ Out(c).res = Out(c).r

\* C5: on a miss whose scored winner has a member of the class nested inside
\* it, the call returns such a nested member and not the winner.
C5_NestedMemberReturned ==
    \A c \in Calls : \A o \in {Out(c)} :
          (o.path = "miss" /\ o.winner # Null /\ NestedMembers(o.winner, o.eqc) # {}) =>
            o.res \in NestedMembers(o.winner, o.eqc) /\ o.res # o.winner

\* a miss with such a winner has happened: its entry holds the nested member
C5_Witness ==
    \E c \in Calls :
      LET o == getInternalRepresentative(reset(This).this, c[1], c[2], c[3])
      IN  /\ Out(c).path = "hit" /\ eeChanges = 0 /\ opts.quantRepMode = "DEPTH"
          /\ o.winner # Null /\ NestedMembers(o.winner, o.eqc) # {}
          /\ Out(c).res \in NestedMembers(o.winner, o.eqc)
          /\ isSubtypeOf(TypeOf(Out(c).res), o.v_tn)

\* C6: a recorded first-chosen generation is never changed and never removed.
C6_FirstChosenPersists ==
    [][\A n \in DOMAIN d_rep_score :
         n \in DOMAIN d_rep_score' /\ d_rep_score'[n] = d_rep_score[n]]_vars

\* a term recorded in generation 0 was chosen again after a reset
C6_Witness ==
    \E k \in DOMAIN d_int_rep :
      d_int_rep[k] \in DOMAIN d_rep_score /\ d_rep_score[d_int_rep[k]] < d_reset_count

\* C7: reset empties the cache, adds one to the counter, leaves d_rep_score
\* as it is and returns true.
C7_ResetEffect ==
    [][(d_reset_count' # d_reset_count \/ (d_int_rep # <<>> /\ d_int_rep' = <<>>)) =>
         /\ d_int_rep' = <<>>
         /\ d_reset_count' = d_reset_count + 1
         /\ d_rep_score' = d_rep_score
         /\ reset(This).res = TRUE]_vars

\* reset has run on a filled cache
C7_Witness == d_reset_count = 1 /\ d_int_rep = <<>> /\ d_rep_score # <<>>

\* C8: the first call for a key after reset is never a hit; it is computed
\* from the class the engine has now.
C8_NoStaleHitAfterReset ==
    /\ \A c \in Calls : \A o \in {Then(reset(This), c)} :
             o.path # "hit" /\ (o.path = "miss" => InSeq(o.res, getEquivalenceClass(o.r)))
    /\ \A k \in DOMAIN cleared \cap DOMAIN d_int_rep :
         InSeq(d_int_rep[k], getEquivalenceClass(k[2])) \/ eeChanges > 0

\* a key answered before reset is answered differently after it
C8_Witness ==
    \E k \in DOMAIN cleared \cap DOMAIN d_int_rep : cleared[k] # d_int_rep[k]

\* C9: a hit is answered by the entry of the call's own type; a miss adds
\* exactly the entry of its own type and changes no other.
C9_PartitionedByType ==
    \A c \in Calls :
      \A o \in {Out(c)} : \A k \in {<<o.v_tn, o.r>>} :
          /\ o.path = "hit" => k \in DOMAIN d_int_rep /\ o.res = d_int_rep[k]
          /\ o.path = "miss" =>
               /\ k \notin DOMAIN d_int_rep
               /\ DOMAIN o.this.d_int_rep = DOMAIN d_int_rep \cup {k}
               /\ o.this.d_int_rep[k] = o.res
               /\ \A k2 \in DOMAIN d_int_rep : o.this.d_int_rep[k2] = d_int_rep[k2]

\* one representative has an entry under Int and another under Real, and they
\* hold different terms
C9_Witness ==
    \E r \in store :
      /\ <<"Int", r>> \in DOMAIN d_int_rep /\ <<"Real", r>> \in DOMAIN d_int_rep
      /\ d_int_rep[<<"Int", r>>] # d_int_rep[<<"Real", r>>]

\* C10: every call returns a term that exists, never null.
C10_ReturnsATerm == \A c \in Calls : \A o \in {Out(c)} : o.res # Null /\ o.res \in store

\* the fall-back of line 161 was taken and returned a term
C10_Witness ==
    \E c \in Calls :
      /\ Out(c).path = "hit" /\ eeChanges = 0
      /\ getInternalRepresentative(reset(This).this, c[1], c[2], c[3]).winner = Null
      /\ Out(c).res \in store

\* C11: when every member of the class scores -2, the call completes: no
\* Assert fails on the way.
C11_RejectedCompletes ==
    \A c \in Calls : \A o \in {Out(c)} :
      (o.path = "miss" /\ AllRejected(c, o)) => o.failed = {}

\* C12: the sequence getEquivalenceClass gives for a term contains the term,
\* registered in the engine or not.
C12_ClassContainsTerm ==
    \A t \in store : InSeq(t, getEquivalenceClass(t))

\* after the engine changed: a registered term that is not the representative
\* of its class, and a term the engine does not know
C12_Witness ==
    /\ eeChanges > 0
    /\ \E t \in store : eeHasTerm(t) /\ eeGetRepresentative(t) # t
    /\ \E t \in store : ~eeHasTerm(t)

\* C13: the counter never decreases; a step that changes it adds one, and it
\* is a step of reset: it empties the cache and changes nothing else, while a
\* step that fills a table (getInternalRepresentative) leaves the counter.
C13_CounterMonotone ==
    [][/\ d_reset_count' >= d_reset_count
       /\ d_reset_count' # d_reset_count =>
            /\ d_reset_count' = d_reset_count + 1
            /\ d_int_rep' = <<>>
            /\ d_rep_score' = d_rep_score
            /\ aborted' = aborted /\ assertsOff' = assertsOff]_vars

\* the counter was incremented and calls were made since
C13_Witness == d_reset_count = MaxResets /\ d_int_rep # <<>>

\* C14: in EE mode the call returns the engine's representative of the query
\* term, mapped through the model's value table when finite model finding
\* applies, and leaves d_int_rep and d_rep_score as they are; filled tables
\* change nothing of this.
C14_EngineDirect ==
    opts.quantRepMode = "EE" =>
      \A c \in Calls : \A o \in {Out(c)} : \A rep \in {getRepresentative(c[1])} :
        /\ o.res = IF /\ opts.finiteModelFind /\ fmModel.present
                      /\ isConst(rep) /\ containsUninterpretedConstant(rep)
                      /\ getTermForRepresentative(rep) # Null
                     THEN getRepresentative(getTermForRepresentative(rep))
                     ELSE rep
        /\ o.this = This
        /\ \A t \in store :
             \A filled \in {[This EXCEPT !.d_int_rep = (<<o.v_tn, o.r>> :> t),
                                         !.d_rep_score = (t :> 0)]} :
               /\ getInternalRepresentative(filled, c[1], c[2], c[3]).res = o.res
               /\ getInternalRepresentative(filled, c[1], c[2], c[3]).this = filled

\* EE mode with a model that maps the value u to the term w of another class
C14_Witness ==
    /\ opts.quantRepMode = "EE" /\ fmModel.present /\ fmModel.u = "w"
    /\ eeHasTerm("u") /\ eeHasTerm("w")
    /\ Out(<<"u", Null, 0>>).res # getRepresentative("u")
    /\ eeChanges > 0

\* A step in which the engine popped: its classes changed, and each class it
\* has now is part of a class it had.
Popped ==
    /\ ee' # ee
    /\ \A c2 \in ee' : \E c1 \in ee : SeqSet(c2.members) \subseteq SeqSet(c1.members)

Score(c, o, n) == getRepScore(This, n, c[2], c[3], o.v_tn)

\* The winner of the selection loop run on the first i members of the class
WinnerOfPrefix(c, o, i) ==
    selectBest(This, SubSeq(o.eqc, 1, i), 1, Null, -1, c[2], c[3], o.v_tn).r_best

\* The call c as it is computed on a miss, whatever the cache holds
Recomputed(c) == getInternalRepresentative(reset(This).this, c[1], c[2], c[3])

\* C16: for the class {f(a), a, b}, in any order and with any representative,
\* a call for a never returns f(a), whichever member the scores rank first.
C16_GuardedAgainstOuterTerm ==
    store = {"fa", "a", "b"} =>
      \A c \in Calls : \A o \in {Out(c)} :
        c[1] = "a" => /\ o.res # "fa"
                      /\ (o.path = "miss" /\ o.winner = "fa") => o.res = "a"

\* depth mode, f(a) ranked first by the level tier: the call for a was made
\* and a is what the cache holds
C16_Witness ==
    /\ store = {"fa", "a", "b"} /\ opts.quantRepMode = "DEPTH"
    /\ \E c \in Calls :
         /\ c[1] = "a" /\ Out(c).path = "hit" /\ Out(c).res = "a"
         /\ Recomputed(c).winner = "fa"

\* C17: when some member of the class is not rejected, the term the call
\* returns is not one the scoring rejects for the target type.
C17_RejectedNeverReturned ==
    \A c \in Calls : \A o \in {Out(c)} :
      (o.path = "miss" /\ ~AllRejected(c, o)) => Score(c, o, o.res) # -2

\* C18: an undesired member is the winner only if no member has a score >= 0,
\* and then the winner is the first member that is not rejected; an undesired
\* member never replaces a winner already found.
C18_UndesiredLast ==
    \A c \in Calls : \A o \in {Out(c)} :
      o.path = "miss" =>
        /\ (o.winner # Null /\ Score(c, o, o.winner) = -1) =>
             /\ \A n \in SeqSet(o.eqc) : Score(c, o, n) < 0
             /\ \E i \in 1..Len(o.eqc) :
                  /\ o.eqc[i] = o.winner
                  /\ \A j \in 1..(i - 1) : Score(c, o, o.eqc[j]) = -2
        /\ \A i \in 1..(Len(o.eqc) - 1) :
             (WinnerOfPrefix(c, o, i) # Null /\ Score(c, o, o.eqc[i + 1]) = -1) =>
               WinnerOfPrefix(c, o, i + 1) = WinnerOfPrefix(c, o, i)

\* a class enumerated with an undesired member after a member of score >= 0
\* was queried, and the undesired member is not what the loop chose
C18_Witness ==
    /\ opts.quantRepMode = "DEPTH"
    /\ \E c \in Calls : \A o \in {Recomputed(c)} :
         /\ Out(c).path = "hit"
         /\ \E i \in 1..(Len(o.eqc) - 1) :
              /\ Score(c, o, o.eqc[i]) >= 0
              /\ Score(c, o, o.eqc[i + 1]) = -1
         /\ Score(c, o, o.winner) >= 0

\* C19: when some member has a score >= 0, the winner of the loop has the
\* least score >= 0, and it is the first member enumerated with that score.
C19_LeastScoreFirst ==
    \A c \in Calls : \A o \in {Out(c)} :
      (o.path = "miss" /\ \E n \in SeqSet(o.eqc) : Score(c, o, n) >= 0) =>
        /\ o.winner # Null
        /\ Score(c, o, o.winner) >= 0
        /\ \A n \in SeqSet(o.eqc) :
             Score(c, o, n) >= 0 => Score(c, o, o.winner) <= Score(c, o, n)
        /\ \E i \in 1..Len(o.eqc) :
             /\ o.eqc[i] = o.winner
             /\ \A j \in 1..(i - 1) : Score(c, o, o.eqc[j]) # Score(c, o, o.winner)

\* a class with two members tied at the least score and a third of a higher
\* score enumerated first was queried
C19_Witness ==
    /\ opts.quantRepMode = "DEPTH"
    /\ \E c \in Calls : \A o \in {Recomputed(c)} :
         /\ Out(c).path = "hit"
         /\ Len(o.eqc) = 3
         /\ Score(c, o, o.eqc[1]) > Score(c, o, o.eqc[2])
         /\ Score(c, o, o.eqc[2]) = Score(c, o, o.eqc[3])
         /\ Score(c, o, o.eqc[2]) >= 0
         /\ o.winner = o.eqc[2]

\* C20: the tiers of getRepScore decide in the order instantiation-constant
\* filter, type filter, closure filter, level, mode: the first that applies
\* gives the score.
C20_TierOrder ==
    \A n \in store : \A v_tn \in {"Int", "Real"} :
      \A score \in {getRepScore(This, n, Null, 0, v_tn)} :
        LET constFilter == opts.cbqi /\ hasInstConstAttr(n)
            typeFilter == ~isSubtypeOf(TypeOf(n), v_tn)
            closureFilter == opts.lteRestrictInstClosure
                               /\ (~isInstClosure(n) \/ ~hasTermCurrent(n))
            levelTier == opts.instMaxLevel # -1
        IN  /\ constFilter => score = -2
            /\ typeFilter => score = -2
            /\ (~constFilter /\ ~typeFilter /\ closureFilter) => score = -1
            /\ (~constFilter /\ ~typeFilter /\ ~closureFilter /\ levelTier) =>
                 score = IF hasInstLevel(n) THEN InstLevel(n)
                         ELSE IF opts.instLevelInputOnly THEN -1 ELSE 0
            /\ (~constFilter /\ ~typeFilter /\ ~closureFilter /\ ~levelTier) =>
                 score = IF opts.quantRepMode = "FIRST"
                           THEN IF n \in DOMAIN d_rep_score THEN d_rep_score[n] ELSE -1
                         ELSE getTermDepth(n)

\* a call for an Int variable scored x, which fails the type filter while the
\* closure filter and the level tier are on and would give another score
C20_Witness ==
    /\ opts.lteRestrictInstClosure /\ opts.instMaxLevel # -1 /\ ~opts.cbqi
    /\ \E k \in DOMAIN d_int_rep :
         /\ k[1] = "Int"
         /\ InSeq("x", getEquivalenceClass(k[2]))
         /\ getRepScore(This, "x", Null, 0, "Int") = -2
         /\ d_int_rep[k] # "x"

\* The candidate n reaches the level tier of getRepScore for the type v_tn: a
\* maximum level is configured and no filter before it applies.
ReachesLevelTier(n, v_tn) ==
    /\ opts.instMaxLevel # -1
    /\ ~(opts.cbqi /\ hasInstConstAttr(n))
    /\ isSubtypeOf(TypeOf(n), v_tn)
    /\ ~(opts.lteRestrictInstClosure /\ (~isInstClosure(n) \/ ~hasTermCurrent(n)))

\* C21 as stated: in the level tier a candidate with a level scores it, and
\* one without scores -1, or 0 when instLevelInputOnly is on.
C21_NoLevelZeroIfInputOnly ==
    \A n \in store : \A v_tn \in {"Int", "Real"} :
      ReachesLevelTier(n, v_tn) =>
        getRepScore(This, n, Null, 0, v_tn) =
          IF hasInstLevel(n) THEN InstLevel(n)
          ELSE IF opts.instLevelInputOnly THEN 0 ELSE -1

\* C21 amended: in the level tier a candidate with a level scores it, and one
\* without scores 0, or -1 when instLevelInputOnly is on.
C21_NoLevelUndesiredIfInputOnly ==
    \A n \in store : \A v_tn \in {"Int", "Real"} :
      ReachesLevelTier(n, v_tn) =>
        getRepScore(This, n, Null, 0, v_tn) =
          IF hasInstLevel(n) THEN InstLevel(n)
          ELSE IF opts.instLevelInputOnly THEN -1 ELSE 0

\* with instLevelInputOnly on, a class with a member that has a level and one
\* that has none was queried, and the member with the level was chosen over
\* the one without, enumerated before it
C21_Witness ==
    /\ opts.instMaxLevel # -1 /\ opts.instLevelInputOnly
    /\ \E c \in Calls : \A o \in {Recomputed(c)} :
         /\ Out(c).path = "hit"
         /\ o.winner # Null /\ hasInstLevel(o.winner)
         /\ ReachesLevelTier(o.winner, o.v_tn)
         /\ \E i \in 1..Len(o.eqc) :
              /\ ~hasInstLevel(o.eqc[i]) /\ ReachesLevelTier(o.eqc[i], o.v_tn)
              /\ \E j \in (i + 1)..Len(o.eqc) : o.eqc[j] = o.winner

\* The candidate n reaches the first-use tier of getRepScore for the type
\* v_tn: the mode is first-use and no tier before it applies.
ReachesFirstUseTier(n, v_tn) ==
    /\ opts.quantRepMode = "FIRST"
    /\ opts.instMaxLevel = -1
    /\ ~(opts.cbqi /\ hasInstConstAttr(n))
    /\ isSubtypeOf(TypeOf(n), v_tn)
    /\ ~(opts.lteRestrictInstClosure /\ (~isInstClosure(n) \/ ~hasTermCurrent(n)))

\* C22: in the first-use tier a candidate scores the generation recorded for
\* it, or -1 if it has no record; and when a member of the enumerated class
\* was first chosen in generation 0, the selection's winner is a member first
\* chosen in generation 0, never a member that was never chosen.
C22_FirstUseScore ==
    /\ \A n \in store : \A v_tn \in {"Int", "Real"} :
         ReachesFirstUseTier(n, v_tn) =>
           getRepScore(This, n, Null, 0, v_tn) =
             IF n \in DOMAIN d_rep_score THEN d_rep_score[n] ELSE -1
    /\ \A c \in Calls : \A o \in {Out(c)} :
         (/\ o.path = "miss"
          /\ \E i \in 1..Len(o.eqc) :
               /\ ReachesFirstUseTier(o.eqc[i], o.v_tn)
               /\ o.eqc[i] \in DOMAIN d_rep_score
               /\ d_rep_score[o.eqc[i]] = 0)
         => /\ o.winner \in DOMAIN d_rep_score
            /\ d_rep_score[o.winner] = 0

\* x, first chosen in generation 0, was chosen again for the class <<e, x>>
\* of representative e, although e is enumerated before it
C22_Witness ==
    /\ opts.quantRepMode = "FIRST"
    /\ [members |-> <<"e", "x">>, rep |-> "e"] \in ee
    /\ <<"Real", "e">> \in DOMAIN d_int_rep
    /\ d_int_rep[<<"Real", "e">>] = "x"
    /\ "x" \in DOMAIN d_rep_score
    /\ d_rep_score["x"] = 0

\* C23: a miss leaves every earlier first-chosen record as it was and adds at
\* most one, for the term it chooses, with the current counter as its value;
\* the chosen term has a record afterwards.  Other calls leave the records
\* alone.
C23_RecordOnlyTheChoice ==
    \A c \in Calls : \A o \in {Out(c)} :
      IF o.path = "miss"
        THEN /\ DOMAIN o.this.d_rep_score = DOMAIN d_rep_score \cup {o.res}
             /\ \A n \in DOMAIN d_rep_score : o.this.d_rep_score[n] = d_rep_score[n]
             /\ o.res \notin DOMAIN d_rep_score =>
                  o.this.d_rep_score[o.res] = d_reset_count
        ELSE o.this.d_rep_score = d_rep_score

\* after a reset a term was chosen for the first time and recorded with
\* generation 1, beside a record of generation 0
C23_Witness ==
    /\ d_reset_count = 1
    /\ \E k \in DOMAIN d_int_rep : \E n \in DOMAIN d_rep_score :
         /\ d_int_rep[k] \in DOMAIN d_rep_score
         /\ d_rep_score[d_int_rep[k]] = 1
         /\ d_rep_score[n] = 0

\* The value mapping of lines 95-113 applies to the call c: finite model
\* finding is on, a model is present, and the engine's representative of the
\* queried term is a value that contains an uninterpreted constant.
MapsValue(c) ==
    /\ opts.finiteModelFind
    /\ fmModel.present
    /\ isConst(getRepresentative(c[1]))
    /\ containsUninterpretedConstant(getRepresentative(c[1]))

\* The model's witnessing term of the value the call c starts from.
WitnessOf(c) == getTermForRepresentative(getRepresentative(c[1]))

\* C24: when the value mapping applies and the value has a witnessing term,
\* the engine's representative of the witness is what the mode check returns,
\* what the cache is looked up and filled with, and whose class is enumerated.
C24_WitnessRepresentativeUsed ==
    \A c \in Calls : \A o \in {Out(c)} :
      (MapsValue(c) /\ WitnessOf(c) # Null) =>
        \A rw \in {getRepresentative(WitnessOf(c))} :
          /\ o.r = rw
          /\ "line108" \notin o.failed
          /\ o.path = "ee" <=> opts.quantRepMode = "EE"
          /\ o.path = "ee" => o.res = rw
          /\ o.path = "hit" <=> (opts.quantRepMode # "EE" /\ <<o.v_tn, rw>> \in DOMAIN d_int_rep)
          /\ o.path = "hit" => o.res = d_int_rep[<<o.v_tn, rw>>]
          /\ o.path = "miss" =>
               /\ o.eqc = getEquivalenceClass(rw)
               /\ DOMAIN o.this.d_int_rep = DOMAIN d_int_rep \cup {<<o.v_tn, rw>>}

\* the value u is in no class with its witness w, the class of w was queried,
\* and a query for u finds the entry of the class of w
C24_Witness ==
    /\ opts.finiteModelFind /\ fmModel.present
    /\ getTermForRepresentative("u") = "w"
    /\ getRepresentative("u") = "u"
    /\ getRepresentative("w") # "u"
    /\ opts.quantRepMode # "EE"
    /\ <<"U", getRepresentative("w")>> \in DOMAIN d_int_rep
    /\ \E c \in Calls : c[1] = "u" /\ Out(c).path = "hit"

\* C25: the Assert(false) of line 108 is reached exactly when the value
\* mapping applies, the value has no witnessing term and its type is a user
\* sort; a call stopped at line 108 was made by a build that checks
\* assertions.  When there is no model, or no witness for a value of another
\* type, the call goes on with the engine's representative.
C25_NoWitness ==
    /\ \A c \in Calls : \A o \in {Out(c)} :
         /\ "line108" \in o.failed <=>
              (/\ MapsValue(c) /\ WitnessOf(c) = Null
               /\ isSort(TypeOf(getRepresentative(c[1]))))
         /\ (~MapsValue(c) \/ WitnessOf(c) = Null) => o.r = getRepresentative(c[1])
    /\ aborted = "line108" =>
         /\ ~assertsOff
         /\ \E c \in Calls :
              /\ MapsValue(c) /\ WitnessOf(c) = Null
              /\ isSort(TypeOf(getRepresentative(c[1])))

\* a call for a value of the user sort without a witness was stopped at line
\* 108, and the array value, which has no witness either, has been given a
\* representative
C25_Witness ==
    /\ aborted = "line108"
    /\ \E k \in DOMAIN d_int_rep : k[2] = "av"

\* The member of eqc that the specification of getInstance names for n: that
\* of the leftmost child with a member among its subterms, found in that child
\* by the same rule; n itself if no proper subterm is a member and n is one.
RECURSIVE FirstNested(_, _)
FirstNested(n, eqc) ==
    LET with == {i \in 1..Len(Children(n)) :
                   Subterms(Children(n)[i]) \cap SeqSet(eqc) # {}}
    IN  IF with # {}
          THEN FirstNested(Children(n)[CHOOSE i \in with : \A j \in with : i <= j], eqc)
        ELSE IF InSeq(n, eqc) THEN n
        ELSE Null

\* The classes the engine has for the terms of the run.
CurrentClasses == {getEquivalenceClass(t) : t \in store}

\* C26: getInstance returns the member in the leftmost child subtree that
\* contains a member, the innermost by the same rule, and the candidate itself
\* only if no proper subterm is a member and it is one; a miss returns that
\* term for the candidate it passes to the guard.
C26_LeftmostInnermost ==
    /\ \A n \in store : \A eqc \in CurrentClasses :
         getInstance(n, eqc, <<>>).res = FirstNested(n, eqc)
    /\ \A c \in Calls : \A o \in {Out(c)} :
         o.path = "miss" => o.res = FirstNested(fallBack(o.winner, o.r), o.eqc)

\* in first-use mode g, enumerated first, won the selection of a class that
\* holds f(a) and b but not a, and f(a) was returned
C26_Witness ==
    /\ opts.quantRepMode = "FIRST"
    /\ \E c \in ee :
         /\ c.members[1] = "g"
         /\ SeqSet(c.members) = {"g", "fa", "b"}
         /\ \E k \in DOMAIN d_int_rep : k[2] = c.rep /\ d_int_rep[k] = "fa"

\* C28: in one call of getInstance from an empty memo table no node has its
\* children gone through twice, a subterm shared by several parents included:
\* the memo table holds exactly the nodes gone through; and a miss returns
\* what the guard computes from an empty memo table.
C28_EachNodeOnce ==
    /\ \A n \in store : \A eqc \in CurrentClasses :
         \A gi \in {getInstance(n, eqc, <<>>)} :
           /\ \A i, j \in 1..Len(gi.visits) : gi.visits[i] = gi.visits[j] => i = j
           /\ SeqSet(gi.visits) = DOMAIN gi.cache
           /\ SeqSet(gi.visits) \subseteq Subterms(n)
    /\ \A c \in Calls : \A o \in {Out(c)} :
         o.path = "miss" =>
           o.res = getInstance(fallBack(o.winner, o.r), o.eqc, <<>>).res

\* g was chosen for a class that holds none of its proper subterms: the guard
\* went through g, f(a), a and b once each, the second child f(a) answered
\* from the memo table
C28_Witness ==
    \E k \in DOMAIN d_int_rep :
      /\ d_int_rep[k] = "g"
      /\ NestedMembers("g", getEquivalenceClass("g")) = {}
      /\ getInstance("g", getEquivalenceClass("g"), <<>>).visits = <<"g", "fa", "a", "b">>

\* The object after one call of reset, and after two calls in a row.
ResetOnce == reset(This)

ResetTwice == reset(ResetOnce.this)

\* C29: with the engine unchanged, the calls of getInternalRepresentative that
\* follow two calls of reset in a row return what they return after one call
\* of reset: the first call, and every call after it.
C29_ResetTwiceAsOnce ==
    \A c1 \in Calls :
      \A o1 \in {Then(ResetOnce, c1)} : \A o2 \in {Then(ResetTwice, c1)} :
        /\ o1.res = o2.res
        /\ o1.failed = o2.failed
        /\ \A c2 \in Calls : Then(o1, c2).res = Then(o2, c2).res

\* in first-use mode reset has been called, with x recorded as first chosen
\* and now in the class <<e, x>>, where the record decides the choice; and a
\* further reset changes nothing but the counter
C29_Witness ==
    /\ opts.quantRepMode = "FIRST"
    /\ d_reset_count = 1
    /\ d_int_rep = <<>>
    /\ "x" \in DOMAIN d_rep_score /\ "e" \notin DOMAIN d_rep_score
    /\ \E c \in ee : c.members = <<"e", "x">>
    /\ ResetOnce.this.d_int_rep = d_int_rep
    /\ ResetOnce.this.d_rep_score = d_rep_score
    /\ Then(ResetOnce, <<"e", "q", 1>>).res = "x"

\* C30: for a term the engine has not registered, getEquivalenceClass is the
\* one-element sequence of the term and getRepresentative is the term; for a
\* registered term they are the members of its class, in the order the
\* engine enumerates them, and the class's representative.
C30_ClassAndRepresentative ==
    \A t \in store :
      IF \E c \in ee : InSeq(t, c.members)
        THEN \E c \in ee :
               /\ InSeq(t, c.members)
               /\ hasTerm(t)
               /\ getEquivalenceClass(t) = c.members
               /\ getRepresentative(t) = c.rep
        ELSE /\ ~hasTerm(t)
             /\ getEquivalenceClass(t) = <<t>>
             /\ getRepresentative(t) = t

\* after a change of the engine, w is in a class of two terms of which it is
\* not the representative, the array value is not registered, and both have
\* been queried
C30_Witness ==
    /\ eeChanges > 0
    /\ Len(getEquivalenceClass("w")) = 2
    /\ getRepresentative("w") # "w"
    /\ ~hasTerm("av")
    /\ \E k \in DOMAIN d_int_rep : k[2] = "av"
    /\ \E k \in DOMAIN d_int_rep : k[2] = getRepresentative("w")

\* C31: the term a miss returns has no proper subterm in the class the miss
\* enumerated.
C31_NoNestedMember ==
    \A c \in Calls : \A o \in {Out(c)} :
      o.path = "miss" => NestedMembers(o.res, o.eqc) = {}

\* in first-use mode g, enumerated first, won the selection of a class that
\* holds g, f(a) and a, and a was returned: neither g nor f(a)
C31_Witness ==
    /\ opts.quantRepMode = "FIRST"
    /\ \E c \in ee :
         /\ c.members[1] = "g"
         /\ {"g", "fa", "a"} \subseteq SeqSet(c.members)
         /\ \E k \in DOMAIN d_int_rep : k[2] = c.rep /\ d_int_rep[k] = "a"

\* C32: the term a miss returns and stores is a member of the class the miss
\* enumerated for the raw representative.
C32_ResultInClass ==
    \A c \in Calls : \A o \in {Out(c)} :
      o.path = "miss" =>
        /\ o.eqc = getEquivalenceClass(o.r)
        /\ InSeq(o.res, o.eqc)
        /\ <<o.v_tn, o.r>> \in DOMAIN o.this.d_int_rep
        /\ o.this.d_int_rep[<<o.v_tn, o.r>>] = o.res

\* in first-use mode f(a), enumerated first in a class without a, won the
\* selection and was returned: a, below it, is no member of the class
C32_Witness ==
    /\ opts.quantRepMode = "FIRST"
    /\ \E c \in ee :
         /\ c.members[1] = "fa"
         /\ "a" \notin SeqSet(c.members)
         /\ Len(c.members) > 1
         /\ \E k \in DOMAIN d_int_rep : k[2] = c.rep /\ d_int_rep[k] = "fa"

\* C39: for a class of the engine, getInstance applied to a non-null result of
\* getInstance returns that result, from an empty memo table and from the one
\* the first call left; and the result for a candidate is the same from an
\* empty memo table as from the table an earlier call for the class left.
C39_GuardIdempotent ==
    \A eqc \in CurrentClasses : \A n \in store :
      \A g1 \in {getInstance(n, eqc, <<>>)} :
        /\ g1.res # Null =>
             /\ getInstance(g1.res, eqc, <<>>).res = g1.res
             /\ getInstance(g1.res, eqc, g1.cache).res = g1.res
        /\ \A m \in store :
             getInstance(n, eqc, getInstance(m, eqc, <<>>).cache).res = g1.res

\* in first-use mode g, enumerated first, won the selection of the class of
\* g and b, and b was returned; the guard applied to b returns b
C39_Witness ==
    /\ opts.quantRepMode = "FIRST"
    /\ \E c \in ee :
         /\ c.members[1] = "g"
         /\ SeqSet(c.members) = {"g", "b"}
         /\ \E k \in DOMAIN d_int_rep : k[2] = c.rep /\ d_int_rep[k] = "b"
         /\ getInstance("b", c.members, getInstance("g", c.members, <<>>).cache).res = "b"

\* C33: a call that finds its key in the cache leaves the cache, the
\* first-chosen table and the counter as they were.
C33_HitChangesNothing ==
    \A c \in Calls : \A o \in {Out(c)} :
      (opts.quantRepMode # "EE" /\ <<o.v_tn, o.r>> \in DOMAIN d_int_rep) =>
        /\ o.path = "hit"
        /\ o.this.d_int_rep = d_int_rep
        /\ o.this.d_rep_score = d_rep_score
        /\ o.this.d_reset_count = d_reset_count

\* after a change of the engine a call hits an entry that a recomputation
\* would replace by another term
C33_Witness ==
    /\ eeChanges > 0
    /\ \E c \in Calls :
         /\ Out(c).path = "hit"
         /\ Recomputed(c).res # Out(c).res

\* C34: every generation recorded in d_rep_score is between 0 and
\* d_reset_count.
C34_RecordsWithinCounter ==
    \A n \in DOMAIN d_rep_score :
      0 <= d_rep_score[n] /\ d_rep_score[n] <= d_reset_count

\* after a reset every record there is was made in the current generation
C34_Witness ==
    /\ d_reset_count = 1
    /\ DOMAIN d_rep_score # {}
    /\ \A n \in DOMAIN d_rep_score : d_rep_score[n] = 1

\* C35: every term the cache holds as a choice has a record in d_rep_score,
\* of a generation that is at most d_reset_count.
C35_CachedChoiceRecorded ==
    \A k \in DOMAIN d_int_rep :
      /\ d_int_rep[k] \in DOMAIN d_rep_score
      /\ d_rep_score[d_int_rep[k]] <= d_reset_count

\* after a reset the cache holds a term that was first chosen in the
\* generation before
C35_Witness ==
    /\ d_reset_count = 1
    /\ \E k \in DOMAIN d_int_rep :
         /\ d_int_rep[k] \in DOMAIN d_rep_score
         /\ d_rep_score[d_int_rep[k]] = 0

\* C36: in first-use mode without a level restriction, the term a miss
\* chooses for a class is chosen again by the same call after reset, and
\* again after a further reset, the engine unchanged.
C36_StableAcrossResets ==
    (opts.quantRepMode = "FIRST" /\ opts.instMaxLevel = -1) =>
      \A c \in Calls : \A o \in {Out(c)} :
        o.path = "miss" =>
          \A o1 \in {Then(reset(o.this), c)} :
            /\ o1.path = "miss"
            /\ o1.res = o.res
            /\ Then(reset(o1.this), c).res = o.res

\* x, first chosen in generation 0, was chosen after the reset for the class
\* <<e, x>>, in which e is enumerated first
C36_Witness ==
    /\ opts.quantRepMode = "FIRST" /\ opts.instMaxLevel = -1
    /\ d_reset_count = 1
    /\ [members |-> <<"e", "x">>, rep |-> "e"] \in ee
    /\ <<"Real", "e">> \in DOMAIN d_int_rep
    /\ d_int_rep[<<"Real", "e">>] = "x"
    /\ "x" \in DOMAIN d_rep_score
    /\ d_rep_score["x"] = 0

\* C37: areEqual and areDisequal never both hold of two terms; every term,
\* registered or not, is equal to itself and not disequal from itself.
C37_EqualOrDisequal ==
    \A a \in store :
      /\ areEqual(a, a)
      /\ ~areDisequal(a, a)
      /\ \A b \in store : ~(areEqual(a, b) /\ areDisequal(a, b))

\* the engine holds a and b disequal, one value is registered and the other
\* is not: there are pairs that are disequal and not equal, and a term out of
\* the engine that is equal to itself
C37_Witness ==
    /\ {"a", "b"} \in eeDiseq
    /\ areDisequal("a", "b") /\ ~areEqual("a", "b")
    /\ hasTerm("u") /\ ~hasTerm("av")
    /\ areEqual("av", "av") /\ ~areDisequal("av", "av")

\* C38: for two distinct terms that are not both registered, areEqual is
\* false and areDisequal is true exactly when both are constants, whatever
\* the engine holds.
C38_UnregisteredPair ==
    \A a \in store : \A b \in store \ {a} :
      ~(hasTerm(a) /\ hasTerm(b)) =>
        /\ ~areEqual(a, b)
        /\ areDisequal(a, b) <=> (isConst(a) /\ isConst(b))

\* after a change of the engine the value u is registered and the array value
\* is not: the two are disequal; b is not registered either, and is neither
\* equal to nor disequal from the registered a
C38_Witness ==
    /\ eeChanges > 0
    /\ hasTerm("u") /\ ~hasTerm("av")
    /\ areDisequal("u", "av") /\ ~areEqual("u", "av")
    /\ hasTerm("a") /\ ~hasTerm("b")
    /\ ~areDisequal("a", "b") /\ ~areEqual("a", "b")

====
